---- MODULE Spec2Model ----
(***************************************************************************)
(* The baggage handling simulation of src/app.py as a state machine.       *)
(*                                                                         *)
(* Every user interaction re-executes the script top to bottom for one    *)
(* session: initialize_state() (line 46), then the selected page function  *)
(* (lines 212-216) with at most one button reporting a click.  One action  *)
(* below is one such script run.  st.session_state is private to a         *)
(* session; the model keeps one copy per connected session.                *)
(***************************************************************************)
EXTENDS Integers, Sequences, FiniteSets, TLC

VARIABLES
    session_state,  \* session -> the four stores kept in st.session_state
    hist,           \* session -> log of what entered and left the queue and the stack
    out,            \* what the last script run was asked and what it displayed
    ninserts        \* number of insertions (add, report, simulate) made so far

vars == <<session_state, hist, out, ninserts>>

----------------------------------------------------------------------------
(* Bounds of the model *)

\* Insertions (add bag, report bag, simulate hour) explored in a behaviour
\* of one session.
MaxInserts == 2

\* The sessions that may be connected.
Sessions == {1, 2}

\* Values get_short_id() is taken to return: 8 upper-case hex characters.
GenIds == {"1A2B3C4D", "9F8E7D6C", "0E5A77B1"}

\* Values a text input is taken to hold when its button is clicked: one
\* generated default, and the empty string typed over it.
TextIds == {"1A2B3C4D", ""}

----------------------------------------------------------------------------
(* Program constants *)

QueueSeedCount == 3
StackSeedCount == 2
SeriesSeedCount == 5
RandLow == 80
RandHigh == 150

PageQueue == "Queue (FIFO)"
PageStack == "Stack (LIFO)"
PageHash == "Hash Table (Dictionary)"
PageGraph == "Graph (Efficiency)"
pages == {PageQueue, PageStack, PageHash, PageGraph}

AllKeys == {"baggage_queue", "misplaced_stack", "passenger_db", "efficiency_data"}

PassengerIds == <<"PAX-001", "PAX-002", "PAX-003">>

----------------------------------------------------------------------------
(* Helpers *)

Last(seq) == seq[Len(seq)]
Front(seq) == SubSeq(seq, 1, Len(seq) - 1)
Range(seq) == {seq[i] : i \in 1..Len(seq)}
MaxOf(S) == CHOOSE x \in S : \A y \in S : y <= x

\* reversed(list), line 128
reversed(seq) == [i \in 1..Len(seq) |-> seq[Len(seq) + 1 - i]]

\* Variant: the upper end taken as included, as random.randint would.
randint_Inclusive(low, high) == {low, high}

\* np.random.randint(low, high): an integer of [low, high).  The two ends of
\* the range stand for the draw.
randint(low, high) == {low, high - 1}

\* get_short_id(): a draw from the identifiers the generator can return.
get_short_id == GenIds

----------------------------------------------------------------------------
(* st.session_state of one session *)

\* A session state in which none of the four keys exists yet.
FreshState ==
    [keys |-> {}, baggage_queue |-> <<>>, misplaced_stack |-> <<>>,
     passenger_db |-> <<>>, efficiency_data |-> <<>>]

NoDetails == [name |-> "", flight |-> "", destination |-> "", bag_id |-> ""]
NoPoint == [Hour |-> 0, Bags |-> 0]

\* Variant: one identifier short, range(2).
SeedQueue_Short(rnd) == [i \in 1..(QueueSeedCount - 1) |-> rnd.queue[i]]

\* [get_short_id() for _ in range(3)], line 24
SeedQueue(rnd) == [i \in 1..QueueSeedCount |-> rnd.queue[i]]

\* [get_short_id() for _ in range(2)], line 28
SeedStack(rnd) == [i \in 1..StackSeedCount |-> rnd.stack[i]]

\* The dictionary literal of lines 32-36.
SeedPassengers(rnd) ==
    [k \in Range(PassengerIds) |->
        CASE k = "PAX-001" ->
                [name |-> "John Doe", flight |-> "UA123", destination |-> "SFO",
                 bag_id |-> rnd.bags[1]]
          [] k = "PAX-002" ->
                [name |-> "Jane Smith", flight |-> "DL456", destination |-> "JFK",
                 bag_id |-> rnd.bags[2]]
          [] k = "PAX-003" ->
                [name |-> "Peter Jones", flight |-> "AA789", destination |-> "LAX",
                 bag_id |-> rnd.bags[3]]]

\* The DataFrame of lines 40-43: Hour = range(1, 6), one random count each.
SeedSeries(rnd) ==
    [i \in 1..SeriesSeedCount |-> [Hour |-> i, Bags |-> rnd.counts[i]]]

\* Variant: the "not in st.session_state" tests left out, so that every run
\* seeds the stores again.
InitializeState_Always(ss, rnd) ==
    [keys |-> ss.keys \cup AllKeys,
     baggage_queue |-> SeedQueue(rnd),
     misplaced_stack |-> SeedStack(rnd),
     passenger_db |-> SeedPassengers(rnd),
     efficiency_data |-> SeedSeries(rnd)]

\* Variant: the keys tested for a value that counts as true
\* ("if not st.session_state.get(key)"), so that an emptied list is seeded
\* again.
InitializeState_Falsy(ss, rnd) ==
    [keys |-> ss.keys \cup AllKeys,
     baggage_queue |->
        IF Len(ss.baggage_queue) = 0 THEN SeedQueue(rnd) ELSE ss.baggage_queue,
     misplaced_stack |->
        IF Len(ss.misplaced_stack) = 0 THEN SeedStack(rnd) ELSE ss.misplaced_stack,
     passenger_db |->
        IF "passenger_db" \notin ss.keys THEN SeedPassengers(rnd) ELSE ss.passenger_db,
     efficiency_data |->
        IF "efficiency_data" \notin ss.keys THEN SeedSeries(rnd) ELSE ss.efficiency_data]

\* initialize_state(), lines 20-43: each key is set only when it is absent.
InitializeState(ss, rnd) ==
    [keys |-> ss.keys \cup AllKeys,
     baggage_queue |->
        IF "baggage_queue" \notin ss.keys THEN SeedQueue(rnd) ELSE ss.baggage_queue,
     misplaced_stack |->
        IF "misplaced_stack" \notin ss.keys THEN SeedStack(rnd) ELSE ss.misplaced_stack,
     passenger_db |->
        IF "passenger_db" \notin ss.keys THEN SeedPassengers(rnd) ELSE ss.passenger_db,
     efficiency_data |->
        IF "efficiency_data" \notin ss.keys THEN SeedSeries(rnd) ELSE ss.efficiency_data]

----------------------------------------------------------------------------
(* The button handlers, as functions of the session state *)

\* Variant: a list of one element taken for an empty one.
Truthy_OffByOne(list) == Len(list) > 1

\* A list used as a condition (lines 72, 114): true when it has an element.
Truthy(list) == Len(list) > 0

\* Variant: pop() in place of pop(0).
PopFront_Last(list) == [item |-> list[Len(list)], rest |-> SubSeq(list, 1, Len(list) - 1)]

\* list.pop(0), line 73: the first element and the list without it.
PopFront(list) == [item |-> Head(list), rest |-> Tail(list)]

\* Variant: pop(0) in place of pop().
PopBack_First(list) == [item |-> Head(list), rest |-> Tail(list)]

\* list.pop(), line 115: the last element and the list without it.
PopBack(list) == [item |-> Last(list), rest |-> Front(list)]

\* Variant: an identifier already queued, or an empty one, is not added.
AddBag_Checked(ss, new_bag_id) ==
    IF new_bag_id = "" \/ new_bag_id \in Range(ss.baggage_queue)
    THEN ss
    ELSE [ss EXCEPT !.baggage_queue = Append(ss.baggage_queue, new_bag_id)]

\* "Add Bag to Queue", line 66.
AddBag(ss, new_bag_id) ==
    [ss EXCEPT !.baggage_queue = Append(ss.baggage_queue, new_bag_id)]

\* "Process Next Bag", lines 72-76: the new state, the message and the bag.
ProcessNextBag(ss) ==
    IF Truthy(ss.baggage_queue)
    THEN LET r == PopFront(ss.baggage_queue) IN
         [state |-> [ss EXCEPT !.baggage_queue = r.rest], msg |-> "info", id |-> r.item]
    ELSE [state |-> ss, msg |-> "warning", id |-> ""]

\* Variant: the report appended to the list of the queue page.
ReportBag_WrongList(ss, misplaced_bag_id) ==
    [ss EXCEPT !.baggage_queue = Append(ss.baggage_queue, misplaced_bag_id)]

\* "Report Misplaced Bag", line 108.
ReportBag(ss, misplaced_bag_id) ==
    [ss EXCEPT !.misplaced_stack = Append(ss.misplaced_stack, misplaced_bag_id)]

\* "Investigate Last Report", lines 114-118.
InvestigateLast(ss) ==
    IF Truthy(ss.misplaced_stack)
    THEN LET r == PopBack(ss.misplaced_stack) IN
         [state |-> [ss EXCEPT !.misplaced_stack = r.rest], msg |-> "info", id |-> r.item]
    ELSE [state |-> ss, msg |-> "warning", id |-> ""]

\* Variant: the membership test left out, the record fetched with a default.
FindDetails_NoTest(ss, passenger_id_to_find) ==
    [msg |-> "success",
     details |-> IF passenger_id_to_find \in DOMAIN ss.passenger_db
                 THEN ss.passenger_db[passenger_id_to_find]
                 ELSE NoDetails]

\* "Find Passenger Details", lines 153-158: st.success and the record, or
\* st.error.  The store is only read.
FindDetails(ss, passenger_id_to_find) ==
    IF passenger_id_to_find \in DOMAIN ss.passenger_db
    THEN [msg |-> "success", details |-> ss.passenger_db[passenger_id_to_find]]
    ELSE [msg |-> "error", details |-> NoDetails]

\* Variant: the number of rows taken for the next hour.
NewHour_RowCount(data) == Len(data)

\* efficiency_data['Hour'].max() + 1, lines 181-182.
NewHour(data) == MaxOf({data[i].Hour : i \in 1..Len(data)}) + 1

\* Variant: pd.concat([new_data, efficiency_data]), the new row put first.
SimulateNextHour_Prepend(ss, new_processed_count) ==
    LET new_data == [Hour |-> NewHour(ss.efficiency_data),
                     Bags |-> new_processed_count] IN
    [state |-> [ss EXCEPT !.efficiency_data = <<new_data>> \o ss.efficiency_data],
     point |-> new_data]

\* "Simulate Next Hour", lines 181-189: the new row, concatenated at the end.
SimulateNextHour(ss, new_processed_count) ==
    LET new_data == [Hour |-> NewHour(ss.efficiency_data),
                     Bags |-> new_processed_count] IN
    [state |-> [ss EXCEPT !.efficiency_data = Append(ss.efficiency_data, new_data)],
     point |-> new_data]

----------------------------------------------------------------------------
(* What a page shows of its store *)

\* Lines 86-87: the bags front to back.
QueueView(ss) == ss.baggage_queue

\* Variant: the loop of line 128 without reversed().
StackView_Unreversed(ss) == ss.misplaced_stack

\* Lines 128-129: the reports, the last one first.
StackView(ss) == reversed(ss.misplaced_stack)

\* Line 149: the options of the select box.
PassengerOptions(ss) == DOMAIN ss.passenger_db

\* Lines 162 and 196: the dictionary and the table as they are.
Snapshot(ss) ==
    [queue |-> QueueView(ss), stack |-> StackView(ss),
     lookup |-> ss.passenger_db, series |-> ss.efficiency_data]

----------------------------------------------------------------------------
(* Seedings the model starts from *)

\* The random values one seeding consumes, in the order of the calls: three
\* identifiers for the queue, two for the stack, three for the passengers'
\* bags, and the five counts.
Draw(ids, counts) ==
    [queue |-> SubSeq(ids, 1, QueueSeedCount),
     stack |-> SubSeq(ids, QueueSeedCount + 1, QueueSeedCount + StackSeedCount),
     bags |-> SubSeq(ids, QueueSeedCount + StackSeedCount + 1,
                     QueueSeedCount + StackSeedCount + Len(PassengerIds)),
     counts |-> counts]

\* Eight identifiers that differ within each store they go to.
DistinctIds ==
    <<"1A2B3C4D", "9F8E7D6C", "0E5A77B1", "9F8E7D6C", "0E5A77B1",
      "1A2B3C4D", "9F8E7D6C", "0E5A77B1">>

\* Five counts, both ends of the range among them.
MixedCounts == <<RandLow, RandHigh - 1, RandHigh - 1, RandLow, RandHigh - 1>>

\* Identifier draws explored: all different within a store, and all equal.
IdDraws == {DistinctIds, [i \in 1..Len(DistinctIds) |-> "9F8E7D6C"]}

\* Count draws explored: the ends of the range mixed, and the lower end only.
CountDraws == {MixedCounts, [i \in 1..SeriesSeedCount |-> RandLow]}

SeedSamples == {Draw(ids, counts) : ids \in IdDraws, counts \in CountDraws}

\* One seeding, the one a re-run is handed when it has nothing to seed.
BaseDraw == Draw(DistinctIds, MixedCounts)

\* The draws a script run consumes in initialize_state(): none once the keys
\* exist.
RerunDraws(ss) == IF AllKeys \subseteq ss.keys THEN {BaseDraw} ELSE SeedSamples

\* Keys a lookup may be tried with: the seeded ones and two that are absent.
LookupKeys == Range(PassengerIds) \cup {"PAX-999", ""}

----------------------------------------------------------------------------
(* The state machine *)

\* What a script run displayed: for which session, the page selected in the
\* sidebar, the button clicked, the message and what it reports.
Shown(s, page, clicked, msg, id, details, point) ==
    [session |-> s, page |-> page, clicked |-> clicked, msg |-> msg, id |-> id,
     details |-> details, point |-> point]

PushEvent(id) == [op |-> "push", id |-> id]
PopEvent(id) == [op |-> "pop", id |-> id]

\* Variant: one state object shared by every session, as a module-level
\* global would be.
Store_Shared(s, ss) == [t \in DOMAIN session_state |-> ss]

\* st.session_state of session s becomes ss; no other session's does.
Store(s, ss) == [session_state EXCEPT ![s] = ss]

\* The insertions explored: MaxInserts, divided by the number of connected
\* sessions when there are several.
InsertBudget == MaxInserts \div Cardinality(DOMAIN session_state)

\* The first script run of each session in `live`: every key is absent and
\* the stores are seeded.
InitWith(live, samples) ==
    /\ session_state \in [live -> {InitializeState(FreshState, rnd) : rnd \in samples}]
    /\ hist = [s \in live |->
                [entered |-> session_state[s].baggage_queue,
                 removed |-> <<>>,
                 stack |-> [i \in 1..Len(session_state[s].misplaced_stack) |->
                              PushEvent(session_state[s].misplaced_stack[i])]]]
    /\ out = Shown(0, PageQueue, "start", "none", "", NoDetails, NoPoint)
    /\ ninserts = 0

Init == InitWith({1}, SeedSamples)

\* A run with no button clicked: the sidebar selects page p (lines 212-216)
\* and the page is drawn.
Navigate(s, p) ==
    \E rnd \in RerunDraws(session_state[s]) :
        /\ session_state' = Store(s, InitializeState(session_state[s], rnd))
        /\ out' = Shown(s, p, "none", "none", "", NoDetails, NoPoint)
        /\ UNCHANGED <<hist, ninserts>>

\* "Add Bag to Queue" (lines 64-69): append, then st.rerun() runs the script
\* again, which drops the success message and draws the page anew.
ClickAddBag(s, new_bag_id) ==
    /\ ninserts < InsertBudget
    /\ \E rnd \in RerunDraws(session_state[s]) :
        LET ss == AddBag(InitializeState(session_state[s], rnd), new_bag_id) IN
        session_state' = Store(s, InitializeState(ss, rnd))
    /\ out' = Shown(s, PageQueue, "add", "none", new_bag_id, NoDetails, NoPoint)
    /\ hist' = [hist EXCEPT ![s].entered = Append(@, new_bag_id)]
    /\ ninserts' = ninserts + 1

\* "Process Next Bag" (lines 71-77), then the queue is drawn (lines 79-90).
ClickProcessNextBag(s) ==
    /\ \E rnd \in RerunDraws(session_state[s]) :
        LET r == ProcessNextBag(InitializeState(session_state[s], rnd)) IN
        /\ session_state' = Store(s, r.state)
        /\ out' = Shown(s, PageQueue, "process", r.msg, r.id, NoDetails, NoPoint)
        /\ hist' = IF r.msg = "info"
                   THEN [hist EXCEPT ![s].removed = Append(@, r.id)]
                   ELSE hist
    /\ UNCHANGED ninserts

\* "Report Misplaced Bag" (lines 106-111), with its st.rerun().
ClickReportBag(s, misplaced_bag_id) ==
    /\ ninserts < InsertBudget
    /\ \E rnd \in RerunDraws(session_state[s]) :
        LET ss == ReportBag(InitializeState(session_state[s], rnd), misplaced_bag_id) IN
        session_state' = Store(s, InitializeState(ss, rnd))
    /\ out' = Shown(s, PageStack, "report", "none", misplaced_bag_id, NoDetails, NoPoint)
    /\ hist' = [hist EXCEPT ![s].stack = Append(@, PushEvent(misplaced_bag_id))]
    /\ ninserts' = ninserts + 1

\* "Investigate Last Report" (lines 113-119), then the stack is drawn.
ClickInvestigate(s) ==
    /\ \E rnd \in RerunDraws(session_state[s]) :
        LET r == InvestigateLast(InitializeState(session_state[s], rnd)) IN
        /\ session_state' = Store(s, r.state)
        /\ out' = Shown(s, PageStack, "investigate", r.msg, r.id, NoDetails, NoPoint)
        /\ hist' = IF r.msg = "info"
                   THEN [hist EXCEPT ![s].stack = Append(@, PopEvent(r.id))]
                   ELSE hist
    /\ UNCHANGED ninserts

\* Variant: the record taken out of the dictionary (dict.pop) when found.
FindWith_Pop(s, ss, key) ==
    LET r == FindDetails(ss, key)
        db == ss.passenger_db
        left == [k \in (DOMAIN db) \ {key} |-> db[k]] IN
    /\ session_state' = Store(s, [ss EXCEPT !.passenger_db = left])
    /\ out' = Shown(s, PageHash, "find", r.msg, key, r.details, NoPoint)
    /\ UNCHANGED <<hist, ninserts>>

\* The lookup handler run on `key` (lines 152-158), then the dictionary is
\* shown (line 162).
FindWith(s, ss, key) ==
    LET r == FindDetails(ss, key) IN
    /\ session_state' = Store(s, ss)
    /\ out' = Shown(s, PageHash, "find", r.msg, key, r.details, NoPoint)
    /\ UNCHANGED <<hist, ninserts>>

\* "Find Passenger Details" with the key the select box holds (lines 147-158):
\* one of the keys of the dictionary.
ClickFindPassenger(s) ==
    \E rnd \in RerunDraws(session_state[s]) :
        LET ss == InitializeState(session_state[s], rnd) IN
        \E key \in PassengerOptions(ss) : FindWith(s, ss, key)

\* The lookup handler (lines 153-158) tried with any key, present or not.
LookupFind(s) ==
    \E rnd \in RerunDraws(session_state[s]) :
        LET ss == InitializeState(session_state[s], rnd) IN
        \E key \in LookupKeys : FindWith(s, ss, key)

\* "Simulate Next Hour" (lines 180-193), then the table is shown (line 196).
ClickSimulateNextHour(s) ==
    /\ ninserts < InsertBudget
    /\ \E rnd \in RerunDraws(session_state[s]) :
       \E new_processed_count \in randint(RandLow, RandHigh) :
        LET r == SimulateNextHour(InitializeState(session_state[s], rnd),
                                  new_processed_count) IN
        /\ session_state' = Store(s, r.state)
        /\ out' = Shown(s, PageGraph, "simulate", "success", "", NoDetails, r.point)
    /\ ninserts' = ninserts + 1
    /\ UNCHANGED hist

Next ==
    \E s \in DOMAIN session_state :
        \/ \E p \in pages : Navigate(s, p)
        \/ \E id \in TextIds : ClickAddBag(s, id)
        \/ ClickProcessNextBag(s)
        \/ \E id \in TextIds : ClickReportBag(s, id)
        \/ ClickInvestigate(s)
        \/ ClickFindPassenger(s)
        \/ ClickSimulateNextHour(s)

Spec == Init /\ [][Next]_vars

\* The same machine with the lookup handler also tried on absent keys.
NextLookup == Next \/ \E s \in DOMAIN session_state : LookupFind(s)

SpecLookup == Init /\ [][NextLookup]_vars

\* Two sessions connected at once.
InitIso == InitWith(Sessions, {BaseDraw})

SpecIso == InitIso /\ [][Next]_vars

----------------------------------------------------------------------------
(* Properties *)

Live == DOMAIN session_state
Queue(s) == session_state[s].baggage_queue
Stack(s) == session_state[s].misplaced_stack
Db(s) == session_state[s].passenger_db
Series(s) == session_state[s].efficiency_data

\* The identifiers inserted and not yet removed after the events of `log`,
\* when every pop takes the latest of them.
RECURSIVE Unpopped(_)
Unpopped(log) ==
    IF log = <<>> THEN <<>>
    ELSE LET before == Unpopped(Front(log))
             e == Last(log) IN
         IF e.op = "push" THEN Append(before, e.id)
         ELSE IF before = <<>> THEN <<>> ELSE Front(before)

\* C1: the k-th bag a session's "Process Next Bag" reports is the k-th
\* identifier that entered its queue, the seeded ones first in seed order and
\* then the added ones in the order they were added.
C1_Fifo ==
    \A s \in Live :
        /\ Len(hist[s].removed) <= Len(hist[s].entered)
        /\ \A k \in 1..Len(hist[s].removed) : hist[s].removed[k] = hist[s].entered[k]

\* Two different identifiers were added after the three seeded ones and all
\* five bags have been processed.
C1_Witness ==
    \E s \in Live :
        /\ Len(hist[s].entered) = QueueSeedCount + 2
        /\ hist[s].entered[QueueSeedCount + 1] # hist[s].entered[QueueSeedCount + 2]
        /\ Len(hist[s].removed) = QueueSeedCount + 2
        /\ out.clicked = "process" /\ out.msg = "info"

\* C2: every report a session's "Investigate Last Report" returns is the one
\* inserted latest among those not yet returned, the seeded reports counting
\* as inserted first in seed order.
C2_Lifo ==
    \A s \in Live :
        \A k \in 1..Len(hist[s].stack) :
            hist[s].stack[k].op = "pop" =>
                LET before == Unpopped(SubSeq(hist[s].stack, 1, k - 1)) IN
                /\ before # <<>>
                /\ hist[s].stack[k].id = Last(before)

\* Two different identifiers A and B were reported one after the other and
\* the next two investigations returned B, then A.
C2_Witness ==
    \E s \in Live :
        \E k \in (StackSeedCount + 1)..(Len(hist[s].stack) - 3) :
            LET log == hist[s].stack IN
            /\ log[k].op = "push" /\ log[k + 1].op = "push"
            /\ log[k].id # log[k + 1].id
            /\ log[k + 2] = PopEvent(log[k + 1].id)
            /\ log[k + 3] = PopEvent(log[k].id)

\* C3: a removal asked of an empty queue or stack ends in the warning and
\* changes no store, the store staying empty, and only such a removal is
\* refused; a bag added or reported next to an empty store is the one the
\* following removal returns.
C3_EmptyRemoval ==
    [][LET s == out'.session IN
       /\ out'.clicked = "process" =>
            /\ (out'.msg = "warning") = (Queue(s) = <<>>)
            /\ out'.msg = "warning" =>
                 session_state' = session_state /\ session_state'[s].baggage_queue = <<>>
            /\ (out.clicked = "add" /\ out.session = s /\ Len(Queue(s)) = 1) =>
                 /\ out'.msg = "info" /\ out'.id = out.id
                 /\ session_state'[s].baggage_queue = <<>>
       /\ out'.clicked = "investigate" =>
            /\ (out'.msg = "warning") = (Stack(s) = <<>>)
            /\ out'.msg = "warning" =>
                 session_state' = session_state /\ session_state'[s].misplaced_stack = <<>>
            /\ (out.clicked = "report" /\ out.session = s /\ Len(Stack(s)) = 1) =>
                 /\ out'.msg = "info" /\ out'.id = out.id
                 /\ session_state'[s].misplaced_stack = <<>>
    ]_vars

\* A bag was processed from a queue that had been emptied and given one bag,
\* after which a further "Process Next Bag" was refused.
C3_Witness ==
    \E s \in Live :
        /\ out.session = s /\ out.clicked = "process" /\ out.msg = "warning"
        /\ Queue(s) = <<>>
        /\ Len(hist[s].removed) = QueueSeedCount + 1

\* C4: a lookup of PAX-001, PAX-002 or PAX-003 succeeds with the record kept
\* under that key, which for PAX-001 has flight UA123 and destination SFO;
\* a lookup of any other key ends in the not-found error.
C4_LookupFind ==
    out.clicked = "find" =>
        IF out.id \in {"PAX-001", "PAX-002", "PAX-003"}
        THEN /\ out.msg = "success"
             /\ out.details = Db(out.session)[out.id]
             /\ out.id = "PAX-001" =>
                    out.details.flight = "UA123" /\ out.details.destination = "SFO"
        ELSE out.msg = "error" /\ out.details = NoDetails

\* PAX-999 was looked up and not found.
C4_Witness ==
    out.clicked = "find" /\ out.id = "PAX-999" /\ out.msg = "error"

\* C5: "Simulate Next Hour" succeeds, puts exactly one point after the points
\* already there, which stay as they were; the point's hour is the last hour
\* plus one, its count lies in [80,150), and it is the point reported.  On the
\* five seeded points it yields a sixth with hour 6.
C5_Advance ==
    [][out'.clicked = "simulate" =>
        LET old == Series(out'.session)
            new == session_state'[out'.session].efficiency_data IN
        /\ out'.msg = "success"
        /\ Len(new) = Len(old) + 1
        /\ SubSeq(new, 1, Len(old)) = old
        /\ Last(new).Hour = Last(old).Hour + 1
        /\ Last(new).Bags >= 80 /\ Last(new).Bags < 150
        /\ out'.point = Last(new)
        /\ Len(old) = 5 => Len(new) = 6 /\ Last(new).Hour = 6
    ]_vars

\* A second hour was simulated: the series has seven points, the last with
\* hour 7.
C5_Witness ==
    /\ out.clicked = "simulate"
    /\ Len(Series(out.session)) = 7
    /\ out.point.Hour = 7

\* C6: a run that only reads (a page drawn with no button clicked, or a
\* passenger looked up, found or not) changes no store of any session, so the
\* snapshots of the four stores before and after it are the same.
C6_ReadsChangeNothing ==
    [][out'.clicked \in {"none", "find"} =>
        /\ session_state' = session_state
        /\ \A s \in Live : Snapshot(session_state'[s]) = Snapshot(session_state[s])
    ]_vars

\* Both stores of a session have been changed and its pages are then drawn
\* again with no button clicked.
C6_Witness ==
    /\ out.clicked = "none" /\ out.page = PageStack
    /\ ninserts > 0
    /\ \E s \in Live : hist[s].removed # <<>> /\ Len(Stack(s)) > StackSeedCount

\* C7: a run of one session changes no store of another session, and each
\* session's queue and stack are what its own additions and removals alone
\* make of its own seeds.
C7_Isolation ==
    [][/\ \A s \in Live :
            s # out'.session => session_state'[s] = session_state[s]
       /\ \A s \in Live :
            /\ session_state'[s].baggage_queue =
                 SubSeq(hist'[s].entered, Len(hist'[s].removed) + 1, Len(hist'[s].entered))
            /\ session_state'[s].misplaced_stack = Unpopped(hist'[s].stack)
    ]_vars

\* Two sessions seeded alike have been taken apart: a bag was processed in
\* one and left in the other, a report investigated in the other only.
C7_Witness ==
    \E s, t \in Live :
        /\ s # t
        /\ Len(Queue(s)) < QueueSeedCount /\ Len(Queue(t)) = QueueSeedCount
        /\ Len(Stack(t)) < StackSeedCount /\ Len(Stack(s)) = StackSeedCount

\* The three passenger records as the script writes them, with whatever bag
\* identifiers were drawn.
SeededRecords(db) ==
    /\ DOMAIN db = {"PAX-001", "PAX-002", "PAX-003"}
    /\ db["PAX-001"].name = "John Doe" /\ db["PAX-001"].flight = "UA123"
    /\ db["PAX-001"].destination = "SFO"
    /\ db["PAX-002"].name = "Jane Smith" /\ db["PAX-002"].flight = "DL456"
    /\ db["PAX-002"].destination = "JFK"
    /\ db["PAX-003"].name = "Peter Jones" /\ db["PAX-003"].flight = "AA789"
    /\ db["PAX-003"].destination = "LAX"
    /\ \A k \in DOMAIN db : db[k].bag_id \in GenIds

\* C8: the lookup table starts with exactly the keys PAX-001, PAX-002 and
\* PAX-003 and no run changes it: every key keeps the record it was seeded
\* with.
C8_LookupFixed ==
    /\ \A s \in Live : SeededRecords(Db(s))
    /\ [][\A s \in Live :
            /\ session_state'[s].passenger_db = Db(s)
            /\ DOMAIN session_state'[s].passenger_db = {"PAX-001", "PAX-002", "PAX-003"}
       ]_vars

\* Every store but the table has been changed and a passenger is looked up.
C8_Witness ==
    /\ out.clicked = "find" /\ out.msg = "success"
    /\ ninserts >= 2
    /\ \E s \in Live :
        /\ hist[s].removed # <<>>
        /\ Len(Series(s)) > SeriesSeedCount
        /\ Len(hist[s].stack) > StackSeedCount

\* C9: the hours of the series are 1, 2, ..., n with n >= 5, hence strictly
\* increasing from 1, and every count lies in [80,150).
C9_SeriesShape ==
    \A s \in Live :
        /\ Len(Series(s)) >= 5
        /\ \A i \in 1..Len(Series(s)) :
            /\ Series(s)[i].Hour = i
            /\ Series(s)[i].Bags >= 80 /\ Series(s)[i].Bags < 150
        /\ \A i, j \in 1..Len(Series(s)) : i < j => Series(s)[i].Hour < Series(s)[j].Hour

\* Two hours were simulated, one with the lowest and one with the highest
\* count.
C9_Witness ==
    \E s \in Live :
        /\ Len(Series(s)) = 7
        /\ Series(s)[6].Bags = 80 /\ Series(s)[7].Bags = 149

\* C10: before any action the queue holds 3 identifiers, the stack 2, the
\* table the three records keyed PAX-001, PAX-002, PAX-003, and the series 5
\* points with hours 1 to 5 and counts in [80,150).
C10_Seeded ==
    out.clicked = "start" =>
        \A s \in Live :
            /\ Len(Queue(s)) = 3 /\ Range(Queue(s)) \subseteq GenIds
            /\ Len(Stack(s)) = 2 /\ Range(Stack(s)) \subseteq GenIds
            /\ SeededRecords(Db(s))
            /\ Len(Series(s)) = 5
            /\ \A i \in 1..5 :
                /\ Series(s)[i].Hour = i
                /\ Series(s)[i].Bags >= 80 /\ Series(s)[i].Bags < 150

\* A session that has just been seeded, with three different bags queued.
C10_Witness ==
    /\ out.clicked = "start"
    /\ \E s \in Live : Cardinality(Range(Queue(s))) = 3 /\ Series(s)[2].Bags = 149

\* C11: "Add Bag to Queue" and "Report Misplaced Bag" take any identifier,
\* the empty one and one already in the store included: the store gets
\* exactly that identifier as its new last element and keeps the elements it
\* had, in their places.
C11_InsertAppends ==
    [][LET s == out'.session IN
       /\ out'.clicked = "add" =>
            /\ session_state'[s].baggage_queue = Append(Queue(s), out'.id)
            /\ Len(session_state'[s].baggage_queue) = Len(Queue(s)) + 1
       /\ out'.clicked = "report" =>
            /\ session_state'[s].misplaced_stack = Append(Stack(s), out'.id)
            /\ Len(session_state'[s].misplaced_stack) = Len(Stack(s)) + 1
    ]_vars

\* The empty identifier was added to a queue whose last element already was
\* the empty identifier.
C11_Witness ==
    \E s \in Live :
        /\ out.session = s /\ out.clicked = "add" /\ out.id = ""
        /\ Len(Queue(s)) >= 2
        /\ Queue(s)[Len(Queue(s))] = "" /\ Queue(s)[Len(Queue(s)) - 1] = ""

\* C12: adding or processing a bag leaves the stack, the table and the
\* series as they were; reporting or investigating leaves the queue, the
\* table and the series; simulating an hour leaves the queue, the stack and
\* the table.
C12_Frame ==
    [][LET s == out'.session
           old == session_state[s]
           new == session_state'[s] IN
       /\ out'.clicked \in {"add", "process"} =>
            /\ new.misplaced_stack = old.misplaced_stack
            /\ new.passenger_db = old.passenger_db
            /\ new.efficiency_data = old.efficiency_data
       /\ out'.clicked \in {"report", "investigate"} =>
            /\ new.baggage_queue = old.baggage_queue
            /\ new.passenger_db = old.passenger_db
            /\ new.efficiency_data = old.efficiency_data
       /\ out'.clicked = "simulate" =>
            /\ new.baggage_queue = old.baggage_queue
            /\ new.misplaced_stack = old.misplaced_stack
            /\ new.passenger_db = old.passenger_db
    ]_vars

\* A report was filed in a session whose queue and series had been changed
\* before.
C12_Witness ==
    \E s \in Live :
        /\ out.session = s /\ out.clicked = "report"
        /\ Len(Queue(s)) = QueueSeedCount - 1
        /\ Len(Stack(s)) = StackSeedCount + 1
        /\ Len(Series(s)) = SeriesSeedCount + 1

\* C13: once a session is seeded, initialize_state changes nothing whatever
\* it would draw, so no store is seeded a second time: the queue and the
\* stack hold what was inserted and not removed, and an emptied one stays
\* empty.
C13_SeededOnce ==
    \A s \in Live :
        /\ \A rnd \in SeedSamples :
              InitializeState(session_state[s], rnd) = session_state[s]
        /\ Len(Queue(s)) = Len(hist[s].entered) - Len(hist[s].removed)
        /\ Len(Stack(s)) = Len(Unpopped(hist[s].stack))

\* The queue and the stack have both been emptied and a page was drawn
\* afterwards with no button clicked.
C13_Witness ==
    \E s \in Live :
        /\ out.session = s /\ out.clicked = "none"
        /\ Queue(s) = <<>> /\ Stack(s) = <<>>
        /\ Len(hist[s].removed) >= QueueSeedCount

\* C14: the last point of the series carries its greatest hour, so the hour
\* the code computes for the next point, max + 1, is the last hour + 1.
C14_MaxIsLast ==
    \A s \in Live :
        /\ Last(Series(s)).Hour = MaxOf({Series(s)[i].Hour : i \in 1..Len(Series(s))})
        /\ NewHour(Series(s)) = Last(Series(s)).Hour + 1

\* Two hours have been simulated and the next hour would be 8.
C14_Witness ==
    \E s \in Live : Len(Series(s)) = SeriesSeedCount + 2 /\ NewHour(Series(s)) = 8

\* C15: the queue page lists what was added and not processed, oldest
\* first; the stack page lists what was reported and not investigated,
\* newest first; and the bag a removal returns is the first one its page
\* listed before the click.
C15_ViewsAgree ==
    [][LET s == out'.session
           new == session_state'[s] IN
       /\ QueueView(new) =
            SubSeq(hist'[s].entered, Len(hist'[s].removed) + 1, Len(hist'[s].entered))
       /\ StackView(new) = reversed(Unpopped(hist'[s].stack))
       /\ (out'.clicked = "process" /\ Queue(s) # <<>>) =>
            out'.msg = "info" /\ out'.id = Head(QueueView(session_state[s]))
       /\ (out'.clicked = "investigate" /\ Stack(s) # <<>>) =>
            out'.msg = "info" /\ out'.id = Head(StackView(session_state[s]))
    ]_vars

\* A report was investigated from a stack of three in which the newest
\* report differed from the oldest.
C15_Witness ==
    \E s \in Live :
        /\ out.session = s /\ out.clicked = "investigate" /\ out.msg = "info"
        /\ Len(Stack(s)) = 2
        /\ out.id # Stack(s)[1]
        /\ Len(hist[s].stack) = StackSeedCount + 2

====
